---- MODULE Spec2Model ----
(***************************************************************************)
(* Validation-and-persistence core of the user directory: the value       *)
(* objects of domain/vo/users.py, the users table created by              *)
(* database/initializers.py and the CRUD repository of                    *)
(* repositories/users.py.                                                 *)
(*                                                                         *)
(* A Python str is a sequence of one-character strings; a Python value is *)
(* a record [t, s, n] carrying its type name t, its characters s (a str)  *)
(* and its number n (an int or a bool).                                   *)
(***************************************************************************)
EXTENDS Integers, Sequences, FiniteSets, TLC

VARIABLES
    tableExists,  \* the users table has been created in the database file
    rows,         \* the rows of users, in rowid order
    last,         \* the last repository call: what it was given and what came back
    input,        \* raw field values handed to a value-object constructor
    built,        \* what the constructor made of input
    assigned,     \* the ids add_user has returned so far
    svc           \* where the command loop and the running service command stand

vars == <<tableExists, rows, last, input, built, assigned, svc>>

---------------------------------------------------------------------------
(* Bounds of the model *)

\* ids the table hands out stay at or below MaxId
MaxId == 3
\* every string of at most MaxEmailInputLen characters is tried as an email
MaxEmailInputLen == 6
\* every string of at most MaxNameInputLen characters is tried as a name
MaxNameInputLen == 2
\* every integer within MaxAgeInput of zero is tried as an age
MaxAgeInput == 103

(* Constants of the program *)

MinAge == 18
MaxAge == 100
MaxEmailLength == 100
MaxNameLength == 50
MaxSurnameLength == 50

---------------------------------------------------------------------------
(* Python values and strings *)

PyStr(s) == [t |-> "str", s |-> s, n |-> 0]
PyInt(n) == [t |-> "int", s |-> <<>>, n |-> n]
PyBool(b) == [t |-> "bool", s |-> <<>>, n |-> IF b THEN 1 ELSE 0]
PyNone == [t |-> "NoneType", s |-> <<>>, n |-> 0]

\* isinstance(value, expected_type); bool is a subclass of int
isinstance(value, expected_type) ==
    \/ value.t = expected_type
    \/ expected_type = "int" /\ value.t = "bool"

UpperCase == <<"A", "B", "C", "D", "E", "F", "G", "H", "I", "J", "K", "L", "M",
               "N", "O", "P", "Q", "R", "S", "T", "U", "V", "W", "X", "Y", "Z">>
LowerCase == <<"a", "b", "c", "d", "e", "f", "g", "h", "i", "j", "k", "l", "m",
               "n", "o", "p", "q", "r", "s", "t", "u", "v", "w", "x", "y", "z">>
Letters == {UpperCase[i] : i \in DOMAIN UpperCase} \cup {LowerCase[i] : i \in DOMAIN LowerCase}
Digits == {"0", "1", "2", "3", "4", "5", "6", "7", "8", "9"}

\* the lower-case letter of each upper-case letter
ToLower ==
    [c \in {UpperCase[i] : i \in DOMAIN UpperCase} |->
        LowerCase[CHOOSE i \in DOMAIN UpperCase : UpperCase[i] = c]]

lower_char(c) == IF c \in DOMAIN ToLower THEN ToLower[c] ELSE c

\* str.lower()
lower(s) == [i \in 1..Len(s) |-> lower_char(s[i])]

\* n copies of the character c
Repeat(c, n) == [i \in 1..n |-> c]

\* the upper-case letter of each lower-case letter
ToUpper ==
    [c \in {LowerCase[i] : i \in DOMAIN LowerCase} |->
        UpperCase[CHOOSE i \in DOMAIN LowerCase : LowerCase[i] = c]]

upper_char(c) == IF c \in DOMAIN ToUpper THEN ToUpper[c] ELSE c

\* str.capitalize(): the first character upper-cased, the others lower-cased
capitalize(s) ==
    IF s = <<>> THEN <<>> ELSE <<upper_char(s[1])>> \o lower(Tail(s))

Whitespace == {" ", "\t", "\n"}

\* str.strip(): without the whitespace at both ends
RECURSIVE lstrip(_)
lstrip(s) ==
    IF s # <<>> /\ s[1] \in Whitespace THEN lstrip(Tail(s)) ELSE s

RECURSIVE rstrip(_)
rstrip(s) ==
    IF s # <<>> /\ s[Len(s)] \in Whitespace THEN rstrip(SubSeq(s, 1, Len(s) - 1)) ELSE s

strip(s) == rstrip(lstrip(s))

DigitChars == <<"0", "1", "2", "3", "4", "5", "6", "7", "8", "9">>

\* the number a string of decimal digits writes
RECURSIVE digits_value(_)
digits_value(s) ==
    IF s = <<>> THEN 0
    ELSE 10 * digits_value(SubSeq(s, 1, Len(s) - 1))
         + (CHOOSE d \in 0..9 : DigitChars[d + 1] = s[Len(s)])

\* int(s): the number of an optionally signed string of digits, or a ValueError
int(s) ==
    LET stripped == strip(s)
        signed == stripped # <<>> /\ stripped[1] \in {"+", "-"}
        body == IF signed THEN Tail(stripped) ELSE stripped
    IN  IF body = <<>> \/ \E i \in DOMAIN body : body[i] \notin Digits
        THEN [err |-> "ValueError", n |-> 0]
        ELSE [err |-> "", n |-> IF signed /\ stripped[1] = "-"
                                THEN 0 - digits_value(body)
                                ELSE digits_value(body)]

---------------------------------------------------------------------------
(* domain/vo/users.py *)

\* the character classes of email_pattern
LocalChars == Letters \cup Digits \cup {"_", ".", "+", "-"}
HostChars == Letters \cup Digits \cup {"-"}
TailChars == Letters \cup Digits \cup {"-", "."}

\* the places where Python's $ matches: the end of the string, and just
\* before a newline that is the last character
DollarEnds(s) ==
    {Len(s)} \cup (IF Len(s) > 0 /\ s[Len(s)] = "\n" THEN {Len(s) - 1} ELSE {})

\* re.match(r'^[a-zA-Z0-9_.+-]+@[a-zA-Z0-9-]+\.[a-zA-Z0-9-.]+$', email):
\* the '@' sits at i, the '.' that ends the host label at j, the match ends at e
re_match_email(email) ==
    \E e \in DollarEnds(email) : \E i \in 2..e :
        /\ email[i] = "@"
        /\ \A k \in 1..(i - 1) : email[k] \in LocalChars
        /\ \E j \in (i + 2)..(e - 1) :
              /\ email[j] = "."
              /\ \A k \in (i + 1)..(j - 1) : email[k] \in HostChars
              /\ \A k \in (j + 1)..e : email[k] \in TailChars

\* what a constructor step hands back: the exception it raised ("" for none),
\* the check that raised it, and the object as the step left it
Raised(err, at, self) == [err |-> err, at |-> at, self |-> self]
Passed(self) == [err |-> "", at |-> "", self |-> self]

\* check_type: the TypeError of a value that is not of the expected type
check_type(value, expected_type) == isinstance(value, expected_type)

\* validate_email: the lower-cased email, or a ValueError
validate_email(email) ==
    IF ~re_match_email(email)
    THEN [err |-> "ValueError", value |-> email]
    ELSE [err |-> "", value |-> lower(email)]

\* age_in_range with 18 < age
age_in_range_exclusive(age) == MinAge < age /\ age <= MaxAge

\* 18 <= self.age <= 100
age_in_range(age) == MinAge <= age /\ age <= MaxAge

\* UserBaseValueObject.__post_init__
UserBaseValueObject_post_init(self) ==
    IF ~check_type(self.name, "str") THEN Raised("TypeError", "name", self)
    ELSE IF ~check_type(self.surname, "str") THEN Raised("TypeError", "surname", self)
    ELSE IF ~check_type(self.age, "int") THEN Raised("TypeError", "age", self)
    ELSE IF ~age_in_range(self.age.n) THEN Raised("ValueError", "age", self)
    ELSE Passed([self EXCEPT !.name = PyStr(lower(self.name.s)),
                             !.surname = PyStr(lower(self.surname.s))])

\* UserCreateUpdateVO.__post_init__, on the fields name, surname, age, email
UserCreateUpdateVO(fields) ==
    LET base == UserBaseValueObject_post_init(fields)
        self == base.self
    IN  IF base.err # "" THEN base
        ELSE IF ~check_type(self.email, "str") THEN Raised("TypeError", "email", self)
        ELSE LET normalized_email == validate_email(self.email.s)
             IN  IF normalized_email.err # "" THEN Raised(normalized_email.err, "email", self)
                 ELSE Passed([self EXCEPT !.email = PyStr(normalized_email.value)])

\* UserVO.__post_init__, on the fields id, name, surname, age, email
UserVO(fields) ==
    LET base == UserBaseValueObject_post_init(fields)
        self == base.self
    IN  IF base.err # "" THEN base
        ELSE IF ~check_type(self.id, "int") THEN Raised("TypeError", "id", self)
        ELSE IF ~check_type(self.email, "str") THEN Raised("TypeError", "email", self)
        ELSE IF self.id.n <= 0 THEN Raised("ValueError", "id", self)
        ELSE LET normalized_email == validate_email(self.email.s)
             IN  IF normalized_email.err # "" THEN Raised(normalized_email.err, "email", self)
                 ELSE Passed([self EXCEPT !.email = PyStr(normalized_email.value)])

---------------------------------------------------------------------------
(* database/initializers.py: the users table and its column constraints *)

AgeCheckLow == 18
AgeCheckHigh == 100

\* email LIKE '%_@__%.__%': an '@' at p after at least one character, a '.'
\* at q after at least two more, and at least two characters after it
like_email(email) ==
    \E p \in 2..Len(email) :
        /\ email[p] = "@"
        /\ \E q \in (p + 3)..(Len(email) - 2) : email[q] = "."

\* row_checks of a table declared without the LENGTH conditions
row_checks_no_length(row) ==
    /\ like_email(row.email)
    /\ AgeCheckLow <= row.age /\ row.age <= AgeCheckHigh

\* the CHECK constraints of one row
row_checks(row) ==
    /\ Len(row.email) <= MaxEmailLength /\ like_email(row.email)
    /\ Len(row.name) <= MaxNameLength
    /\ Len(row.surname) <= MaxSurnameLength
    /\ AgeCheckLow <= row.age /\ row.age <= AgeCheckHigh

\* email_unique of a column declared without UNIQUE
email_unique_undeclared(tbl, id, email) == TRUE

\* email TEXT UNIQUE: no row of tbl other than the one with rowid id holds email
email_unique(tbl, id, email) ==
    \A i \in DOMAIN tbl : tbl[i].email = email => tbl[i].id = id

\* new_rowid taken from the number of rows
new_rowid_count(tbl) == Len(tbl) + 1

\* id INTEGER PRIMARY KEY: the rowid of a new row is one more than the largest
\* rowid of the table, and 1 in an empty table
new_rowid(tbl) ==
    IF tbl = <<>> THEN 1
    ELSE 1 + (CHOOSE m \in {tbl[i].id : i \in DOMAIN tbl} :
                 \A i \in DOMAIN tbl : tbl[i].id <= m)

\* initialize_table that drops the table and creates it again
initialize_table_recreate(exists, tbl) ==
    [outcome |-> "ok", exists |-> TRUE, rows |-> <<>>]

\* DatabaseInitializer.initialize_table: CREATE TABLE IF NOT EXISTS users
initialize_table(exists, tbl) ==
    [outcome |-> "ok", exists |-> TRUE, rows |-> IF exists THEN tbl ELSE <<>>]

---------------------------------------------------------------------------
(* repositories/users.py *)

\* what a repository call hands back: "ok" or the exception it raised, the
\* rows it left in the table, and the users it returned
Outcome(outcome, tbl, result) == [outcome |-> outcome, rows |-> tbl, result |-> result]

\* the indexes of the rows a WHERE email = ? selects
Matching(tbl, email) == {i \in DOMAIN tbl : tbl[i].email = email}

\* UserVO_of_row with the name and surname columns taken for each other
UserVO_of_row_swapped(row) ==
    UserVO([id |-> PyInt(row.id), email |-> PyStr(row.email), name |-> PyStr(row.surname),
            surname |-> PyStr(row.name), age |-> PyInt(row.age)])

\* UserVO(id=row[0], email=row[1], name=row[2], surname=row[3], age=row[4])
UserVO_of_row(row) ==
    UserVO([id |-> PyInt(row.id), email |-> PyStr(row.email), name |-> PyStr(row.name),
            surname |-> PyStr(row.surname), age |-> PyInt(row.age)])

\* UserRepository.add_user
add_user(exists, tbl, new_user) ==
    LET user_id == new_rowid(tbl)
        row == [id |-> user_id, email |-> new_user.email.s, name |-> new_user.name.s,
                surname |-> new_user.surname.s, age |-> new_user.age.n]
        inserted == Append(tbl, row)
        user == UserVO([id |-> PyInt(user_id), name |-> new_user.name,
                        surname |-> new_user.surname, age |-> new_user.age,
                        email |-> new_user.email])
    IN  IF ~exists THEN Outcome("OperationalError", tbl, <<>>)
        ELSE IF ~row_checks(row) \/ ~email_unique(tbl, user_id, row.email)
        THEN Outcome("IncorrectUserData", tbl, <<>>)
        ELSE IF user.err # "" THEN Outcome(user.err, inserted, <<>>)
        ELSE Outcome("ok", inserted, <<user.self>>)

\* UserRepository.get_user_by_email
get_user_by_email(exists, tbl, email) ==
    IF ~exists THEN Outcome("OperationalError", tbl, <<>>)
    ELSE IF Matching(tbl, email) = {} THEN Outcome("UserNotFound", tbl, <<>>)
    ELSE LET row == tbl[CHOOSE i \in Matching(tbl, email) :
                            \A j \in Matching(tbl, email) : i <= j]
             user == UserVO_of_row(row)
         IN  IF user.err # "" THEN Outcome(user.err, tbl, <<>>)
             ELSE Outcome("ok", tbl, <<user.self>>)

\* UserRepository.get_all_users
get_all_users(exists, tbl) ==
    LET users == [i \in DOMAIN tbl |-> UserVO_of_row(tbl[i])]
        failed == {i \in DOMAIN tbl : users[i].err # ""}
    IN  IF ~exists THEN Outcome("OperationalError", tbl, <<>>)
        ELSE IF failed # {}
        THEN Outcome(users[CHOOSE i \in failed : \A j \in failed : i <= j].err, tbl, <<>>)
        ELSE Outcome("ok", tbl, [i \in DOMAIN tbl |-> users[i].self])

\* update_user without the WHERE clause
update_user_no_where(exists, tbl, user_to_update) ==
    LET updated == [i \in DOMAIN tbl |->
                       [tbl[i] EXCEPT !.name = user_to_update.name.s,
                                      !.surname = user_to_update.surname.s,
                                      !.age = user_to_update.age.n]]
        rowcount == Len(tbl)
    IN  IF ~exists THEN Outcome("OperationalError", tbl, <<>>)
        ELSE IF \E i \in DOMAIN tbl : ~row_checks(updated[i])
        THEN Outcome("IncorrectUserData", tbl, <<>>)
        ELSE IF rowcount = 0 THEN Outcome("UserNotFound", tbl, <<>>)
        ELSE Outcome("ok", updated, <<>>)

\* update_user without the rowcount test (UserRepository.update_user of src/database.py)
update_user_no_rowcount(exists, tbl, user_to_update) ==
    LET updated == [i \in DOMAIN tbl |->
                       IF tbl[i].email = user_to_update.email.s
                       THEN [tbl[i] EXCEPT !.name = user_to_update.name.s,
                                           !.surname = user_to_update.surname.s,
                                           !.age = user_to_update.age.n]
                       ELSE tbl[i]]
    IN  IF ~exists THEN Outcome("OperationalError", tbl, <<>>)
        ELSE IF \E i \in Matching(tbl, user_to_update.email.s) : ~row_checks(updated[i])
        THEN Outcome("IncorrectUserData", tbl, <<>>)
        ELSE Outcome("ok", updated, <<>>)

\* UserRepository.update_user
update_user(exists, tbl, user_to_update) ==
    LET updated == [i \in DOMAIN tbl |->
                       IF tbl[i].email = user_to_update.email.s
                       THEN [tbl[i] EXCEPT !.name = user_to_update.name.s,
                                           !.surname = user_to_update.surname.s,
                                           !.age = user_to_update.age.n]
                       ELSE tbl[i]]
        rowcount == Cardinality(Matching(tbl, user_to_update.email.s))
    IN  IF ~exists THEN Outcome("OperationalError", tbl, <<>>)
        ELSE IF \E i \in Matching(tbl, user_to_update.email.s) : ~row_checks(updated[i])
        THEN Outcome("IncorrectUserData", tbl, <<>>)
        ELSE IF rowcount = 0 THEN Outcome("UserNotFound", tbl, <<>>)
        ELSE Outcome("ok", updated, <<>>)

\* delete_user_by_email without the WHERE clause
delete_user_by_email_no_where(exists, tbl, email) ==
    IF ~exists THEN Outcome("OperationalError", tbl, <<>>)
    ELSE IF tbl = <<>> THEN Outcome("UserNotFound", tbl, <<>>)
    ELSE Outcome("ok", <<>>, <<>>)

\* delete_user_by_email without the commit
delete_user_by_email_no_commit(exists, tbl, email) ==
    IF ~exists THEN Outcome("OperationalError", tbl, <<>>)
    ELSE IF Matching(tbl, email) = {} THEN Outcome("UserNotFound", tbl, <<>>)
    ELSE Outcome("ok", tbl, <<>>)

\* delete_user_by_email without the rowcount test
delete_user_by_email_no_rowcount(exists, tbl, email) ==
    IF ~exists THEN Outcome("OperationalError", tbl, <<>>)
    ELSE Outcome("ok", SelectSeq(tbl, LAMBDA row : row.email # email), <<>>)

\* UserRepository.delete_user_by_email
delete_user_by_email(exists, tbl, email) ==
    LET kept == SelectSeq(tbl, LAMBDA row : row.email # email)
        rowcount == Len(tbl) - Len(kept)
    IN  IF ~exists THEN Outcome("OperationalError", tbl, <<>>)
        ELSE IF rowcount = 0 THEN Outcome("UserNotFound", tbl, <<>>)
        ELSE Outcome("ok", kept, <<>>)

\* delete_all_users without the commit
delete_all_users_no_commit(exists, tbl) ==
    IF ~exists THEN Outcome("OperationalError", tbl, <<>>)
    ELSE Outcome("ok", tbl, <<>>)

\* UserRepository.delete_all_users
delete_all_users(exists, tbl) ==
    IF ~exists THEN Outcome("OperationalError", tbl, <<>>)
    ELSE Outcome("ok", <<>>, <<>>)

---------------------------------------------------------------------------
(* The calls made on the core *)

Fields(name, surname, age, email) ==
    [name |-> PyStr(name), surname |-> PyStr(surname), age |-> PyInt(age), email |-> PyStr(email)]

NoFields == [name |-> PyNone, surname |-> PyNone, age |-> PyNone, email |-> PyNone]

Bob == <<"B", "o", "b">>
Al == <<"a", "l">>
Doe == <<"D", "o", "e">>
EmailA == <<"A", "@", "b", "b", ".", "c", "c">>
EmailALower == <<"a", "@", "b", "b", ".", "c", "c">>
EmailB == <<"b", "@", "b", "b", ".", "c", "c">>
\* accepted by email_pattern, too short after the '@' for the LIKE pattern
EmailShort == <<"a", "@", "b", ".", "c">>
\* an email that ends with a newline, which email_pattern's '$' lets through
EmailNewline == <<"c", "@", "b", "b", ".", "c", "c", "\n">>
\* an email of exactly MaxEmailLength characters, and one longer by one
EmailFull == Repeat("a", MaxEmailLength - 6) \o <<"@", "b", "b", ".", "c", "c">>
EmailLong == Repeat("a", MaxEmailLength - 5) \o <<"@", "b", "b", ".", "c", "c">>
\* names of exactly the column's length, and longer by one
NameFull == Repeat("n", MaxNameLength)
NameLong == Repeat("n", MaxNameLength + 1)
SurnameLong == Repeat("s", MaxSurnameLength + 1)

\* the raw records the callers hand to UserCreateUpdateVO before add and update
RawRecords ==
    { Fields(Bob, Doe, 25, EmailA),
      Fields(Al, Doe, 100, EmailALower),
      Fields(<<>>, Doe, 18, EmailB),
      Fields(NameFull, Doe, 30, EmailFull),
      Fields(Bob, Doe, 25, EmailShort),
      Fields(Bob, Doe, 25, EmailLong),
      Fields(NameLong, Doe, 25, EmailALower),
      Fields(Bob, SurnameLong, 25, EmailB),
      Fields(Bob, Doe, 17, EmailALower),
      Fields(Al, Doe, 40, EmailNewline) }

\* the emails the callers look up and delete
Emails == {EmailALower, EmailA, EmailB, EmailFull, EmailShort, EmailNewline}

---------------------------------------------------------------------------
(* The repository of src/database.py, the single-file copy of the program *)

\* database.py, UserRepository.add_user: no except clause, the IntegrityError
\* of the INSERT leaves the method as it is
database_add_user(exists, tbl, new_user) ==
    LET user_id == new_rowid(tbl)
        row == [id |-> user_id, email |-> new_user.email.s, name |-> new_user.name.s,
                surname |-> new_user.surname.s, age |-> new_user.age.n]
        inserted == Append(tbl, row)
        user == UserVO([id |-> PyInt(user_id), name |-> new_user.name,
                        surname |-> new_user.surname, age |-> new_user.age,
                        email |-> new_user.email])
    IN  IF ~exists THEN Outcome("OperationalError", tbl, <<>>)
        ELSE IF ~row_checks(row) \/ ~email_unique(tbl, user_id, row.email)
        THEN Outcome("IntegrityError", tbl, <<>>)
        ELSE IF user.err # "" THEN Outcome(user.err, inserted, <<>>)
        ELSE Outcome("ok", inserted, <<user.self>>)

\* database.py, UserRepository.get_user_by_email: returns None, here no user,
\* when no row holds the email
database_get_user_by_email(exists, tbl, email) ==
    IF ~exists THEN Outcome("OperationalError", tbl, <<>>)
    ELSE IF Matching(tbl, email) = {} THEN Outcome("ok", tbl, <<>>)
    ELSE LET row == tbl[CHOOSE i \in Matching(tbl, email) :
                            \A j \in Matching(tbl, email) : i <= j]
             user == UserVO_of_row(row)
         IN  IF user.err # "" THEN Outcome(user.err, tbl, <<>>)
             ELSE Outcome("ok", tbl, <<user.self>>)

\* database.py, UserRepository.get_all_users
database_get_all_users(exists, tbl) ==
    LET users == [i \in DOMAIN tbl |-> UserVO_of_row(tbl[i])]
        failed == {i \in DOMAIN tbl : users[i].err # ""}
    IN  IF ~exists THEN Outcome("OperationalError", tbl, <<>>)
        ELSE IF failed # {}
        THEN Outcome(users[CHOOSE i \in failed : \A j \in failed : i <= j].err, tbl, <<>>)
        ELSE Outcome("ok", tbl, [i \in DOMAIN tbl |-> users[i].self])

\* database.py, UserRepository.update_user: no rowcount test, no except clause
database_update_user(exists, tbl, user_to_update) ==
    LET updated == [i \in DOMAIN tbl |->
                       IF tbl[i].email = user_to_update.email.s
                       THEN [tbl[i] EXCEPT !.name = user_to_update.name.s,
                                           !.surname = user_to_update.surname.s,
                                           !.age = user_to_update.age.n]
                       ELSE tbl[i]]
    IN  IF ~exists THEN Outcome("OperationalError", tbl, <<>>)
        ELSE IF \E i \in Matching(tbl, user_to_update.email.s) : ~row_checks(updated[i])
        THEN Outcome("IntegrityError", tbl, <<>>)
        ELSE Outcome("ok", updated, <<>>)

\* database.py, UserRepository.delete_user_by_email: no rowcount test
database_delete_user_by_email(exists, tbl, email) ==
    IF ~exists THEN Outcome("OperationalError", tbl, <<>>)
    ELSE Outcome("ok", SelectSeq(tbl, LAMBDA row : row.email # email), <<>>)

\* database.py, UserRepository.delete_all_users
database_delete_all_users(exists, tbl) ==
    IF ~exists THEN Outcome("OperationalError", tbl, <<>>)
    ELSE Outcome("ok", <<>>, <<>>)

\* database.py, DatabaseInitializer.initialize_table: the same statement
database_initialize_table(exists, tbl) ==
    Outcome("ok", IF exists THEN tbl ELSE <<>>, <<>>)

\* the same call made on the classes of database.py
database_call(op, exists, tbl, vo, email) ==
    IF op = "add_user" THEN database_add_user(exists, tbl, vo)
    ELSE IF op = "get_user_by_email" THEN database_get_user_by_email(exists, tbl, email)
    ELSE IF op = "get_all_users" THEN database_get_all_users(exists, tbl)
    ELSE IF op = "update_user" THEN database_update_user(exists, tbl, vo)
    ELSE IF op = "delete_user_by_email" THEN database_delete_user_by_email(exists, tbl, email)
    ELSE IF op = "delete_all_users" THEN database_delete_all_users(exists, tbl)
    ELSE database_initialize_table(exists, tbl)

---------------------------------------------------------------------------

\* no command loop is running
NoService ==
    [pc |-> "none", cmd |-> "none", err |-> "", declined |-> FALSE, calls |-> 0, yes |-> 0]

\* the methods that close cursor and connection in a finally clause
ClosesInFinally == {"add_user", "update_user", "delete_user_by_email"}

\* the connections a call leaves open: the other methods close after the last
\* statement, which a raising execute or commit never reaches
connections_left_open(op, outcome) ==
    IF op \in ClosesInFinally THEN 0
    ELSE IF outcome = "OperationalError" THEN 1
    ELSE 0

NoCall ==
    [op |-> "none", vo |-> NoFields, email |-> <<>>, outcome |-> "", result |-> <<>>,
     before |-> <<>>, existed |-> FALSE, open |-> 0, assigned |-> {},
     database |-> Outcome("", <<>>, <<>>)]

Call(op, vo, email, r) ==
    [op |-> op, vo |-> vo, email |-> email, outcome |-> r.outcome, result |-> r.result,
     before |-> rows, existed |-> tableExists,
     open |-> connections_left_open(op, r.outcome), assigned |-> assigned,
     database |-> database_call(op, tableExists, rows, vo, email)]

NotBuilt == [done |-> FALSE, err |-> "", at |-> "", self |-> NoFields]

Init ==
    /\ tableExists = FALSE
    /\ rows = <<>>
    /\ last = NoCall
    /\ input = [kind |-> "none", fields |-> NoFields]
    /\ built = NotBuilt
    /\ assigned = {}
    /\ svc = NoService

\* DatabaseInitializer.initialize_table()
InitializeTable ==
    LET r == initialize_table(tableExists, rows)
    IN  /\ tableExists' = r.exists
        /\ rows' = r.rows
        /\ last' = Call("initialize_table", NoFields, <<>>, [outcome |-> r.outcome, result |-> <<>>])
        /\ UNCHANGED <<input, built, assigned, svc>>

\* repository.add_user(UserCreateUpdateVO(...))
AddUser ==
    \E raw \in RawRecords :
        LET new_user == UserCreateUpdateVO(raw)
            r == add_user(tableExists, rows, new_user.self)
        IN  /\ new_user.err = ""
            /\ \A i \in DOMAIN r.rows : r.rows[i].id <= MaxId
            /\ rows' = r.rows
            /\ last' = Call("add_user", new_user.self, new_user.self.email.s, r)
            /\ assigned' = IF r.outcome = "ok"
                           THEN assigned \cup {r.result[1].id.n}
                           ELSE assigned
            /\ UNCHANGED <<tableExists, input, built, svc>>

\* repository.get_user_by_email(email)
GetUserByEmail ==
    \E email \in Emails :
        LET r == get_user_by_email(tableExists, rows, email)
        IN  /\ rows' = r.rows
            /\ last' = Call("get_user_by_email", NoFields, email, r)
            /\ UNCHANGED <<tableExists, input, built, assigned, svc>>

\* repository.get_all_users()
GetAllUsers ==
    LET r == get_all_users(tableExists, rows)
    IN  /\ rows' = r.rows
        /\ last' = Call("get_all_users", NoFields, <<>>, r)
        /\ UNCHANGED <<tableExists, input, built, assigned, svc>>

\* repository.update_user(UserCreateUpdateVO(...))
UpdateUser ==
    \E raw \in RawRecords :
        LET user_to_update == UserCreateUpdateVO(raw)
            r == update_user(tableExists, rows, user_to_update.self)
        IN  /\ user_to_update.err = ""
            /\ rows' = r.rows
            /\ last' = Call("update_user", user_to_update.self, user_to_update.self.email.s, r)
            /\ UNCHANGED <<tableExists, input, built, assigned, svc>>

\* repository.delete_user_by_email(email)
DeleteUserByEmail ==
    \E email \in Emails :
        LET r == delete_user_by_email(tableExists, rows, email)
        IN  /\ rows' = r.rows
            /\ last' = Call("delete_user_by_email", NoFields, email, r)
            /\ UNCHANGED <<tableExists, input, built, assigned, svc>>

\* repository.delete_all_users()
DeleteAllUsers ==
    LET r == delete_all_users(tableExists, rows)
    IN  /\ rows' = r.rows
        /\ last' = Call("delete_all_users", NoFields, <<>>, r)
        /\ UNCHANGED <<tableExists, input, built, assigned, svc>>

Next ==
    \/ InitializeTable
    \/ AddUser
    \/ GetUserByEmail
    \/ GetAllUsers
    \/ UpdateUser
    \/ DeleteUserByEmail
    \/ DeleteAllUsers

Spec == Init /\ [][Next]_vars

---------------------------------------------------------------------------
(* Properties of the repository, checked under Spec *)

\* the fields of the record a call was given
GivenEmail == last.vo.email.s
GivenName == last.vo.name.s
GivenSurname == last.vo.surname.s

\* C1: on an existing table, update of a validated record whose email matches
\* no stored row fails with UserNotFound and leaves the table as it was.
C1_UpdateMissingIsNotFound ==
    (last.op = "update_user" /\ last.existed /\ Matching(last.before, last.email) = {})
        => (last.outcome = "UserNotFound" /\ rows = last.before)

\* an update of a missing email has been made on a table that holds other rows
C1_Witness ==
    /\ last.op = "update_user" /\ last.existed
    /\ Matching(last.before, last.email) = {}
    /\ Len(last.before) >= 2

\* C2: on an existing table, delete_user_by_email of an email that matches no
\* stored row fails with UserNotFound and leaves the table as it was.
C2_DeleteMissingIsNotFound ==
    (last.op = "delete_user_by_email" /\ last.existed /\ Matching(last.before, last.email) = {})
        => (last.outcome = "UserNotFound" /\ rows = last.before)

\* a delete of a missing email has been made on a table that holds other rows
C2_Witness ==
    /\ last.op = "delete_user_by_email" /\ last.existed
    /\ Matching(last.before, last.email) = {}
    /\ Len(last.before) >= 2

\* C3: add_user of a record whose email is already stored fails with
\* IncorrectUserData, and every row, the one with that email included, and the
\* row count are as before.
C3_AddDuplicateFails ==
    (last.op = "add_user" /\ last.existed /\ Matching(last.before, last.email) # {})
        => (last.outcome = "IncorrectUserData" /\ rows = last.before)

\* an add of a stored email has been made with a name other than the stored one
C3_Witness ==
    /\ last.op = "add_user" /\ last.existed
    /\ \E i \in Matching(last.before, last.email) : last.before[i].name # GivenName
    /\ Len(last.before) >= 2

\* C4: right after add_user returned a user, get_user_by_email of the record's
\* email returns a user with the record's name, surname, age and email and
\* with the positive id add_user returned.
C4_AddThenGetRoundTrip ==
    (last.op = "add_user" /\ last.outcome = "ok")
        => LET got == get_user_by_email(tableExists, rows, GivenEmail)
           IN  /\ got.outcome = "ok"
               /\ Len(got.result) = 1 /\ Len(last.result) = 1
               /\ got.result[1].name = last.vo.name
               /\ got.result[1].surname = last.vo.surname
               /\ got.result[1].age = last.vo.age
               /\ got.result[1].email = last.vo.email
               /\ got.result[1].id.t = "int" /\ got.result[1].id.n > 0
               /\ got.result[1].id = last.result[1].id

\* an add has succeeded on a table that already held a row
C4_Witness ==
    /\ last.op = "add_user" /\ last.outcome = "ok"
    /\ Len(last.before) >= 1
    /\ GivenName # GivenSurname

\* C5: add_user of a validated record within the length caps whose email is
\* not stored succeeds and returns the persisted user.
C5_AddFailsOnlyOnDuplicate ==
    (/\ last.op = "add_user" /\ last.existed
     /\ Len(GivenEmail) <= MaxEmailLength
     /\ Len(GivenName) <= MaxNameLength
     /\ Len(GivenSurname) <= MaxSurnameLength
     /\ Matching(last.before, last.email) = {})
        => (last.outcome = "ok" /\ Len(last.result) = 1 /\ Len(rows) = Len(last.before) + 1)

\* the record of the call is longer than a column allows
TooLong ==
    \/ Len(GivenEmail) > MaxEmailLength
    \/ Len(GivenName) > MaxNameLength
    \/ Len(GivenSurname) > MaxSurnameLength

\* C9 as stated: add_user and update_user of a record with an email of more
\* than 100 characters or a name or surname of more than 50 fail with
\* IncorrectUserData and leave the table as it was.
C9_TooLongIsIncorrectUserData ==
    (last.op \in {"add_user", "update_user"} /\ last.existed /\ TooLong)
        => (last.outcome = "IncorrectUserData" /\ rows = last.before)

\* C9 as amended: such a call fails and leaves the table as it was; add_user
\* fails with IncorrectUserData, update_user with IncorrectUserData when a row
\* with the record's email is stored and with UserNotFound when none is.
C9_TooLongFails ==
    (last.op \in {"add_user", "update_user"} /\ last.existed /\ TooLong)
        => /\ rows = last.before
           /\ last.outcome =
                 IF last.op = "update_user" /\ Matching(last.before, last.email) = {}
                 THEN "UserNotFound" ELSE "IncorrectUserData"

\* an update with too long a name has been made on the row with its email
C9_Witness ==
    /\ last.op = "update_user" /\ last.existed
    /\ Len(GivenName) > MaxNameLength
    /\ Matching(last.before, last.email) # {}

\* C10: no two stored rows have the same email.
C10_EmailsUnique ==
    \A i, j \in DOMAIN rows : rows[i].email = rows[j].email => i = j

\* the table holds several rows and an add of a stored email has just been made
C10_Witness ==
    /\ Len(rows) >= 3
    /\ last.op = "add_user"
    /\ Matching(last.before, last.email) # {}

\* the user a stored row is read back as
UserOfRow(row) ==
    [id |-> PyInt(row.id), email |-> PyStr(row.email), name |-> PyStr(row.name),
     surname |-> PyStr(row.surname), age |-> PyInt(row.age)]

\* C11: update_user on a stored email leaves the number of rows, every id and
\* every email as they were and changes no row with another email; with a
\* record within the length caps it succeeds, and get_user_by_email then
\* returns the record's name, surname and age with the row's id and email.
C11_UpdateChangesNameSurnameAge ==
    (last.op = "update_user" /\ last.existed /\ Matching(last.before, last.email) # {})
        => /\ Len(rows) = Len(last.before)
           /\ \A i \in DOMAIN last.before :
                 /\ rows[i].id = last.before[i].id
                 /\ rows[i].email = last.before[i].email
                 /\ last.before[i].email # last.email => rows[i] = last.before[i]
           /\ ~TooLong =>
                 /\ last.outcome = "ok"
                 /\ LET got == get_user_by_email(tableExists, rows, last.email)
                    IN  /\ got.outcome = "ok"
                        /\ \A i \in Matching(last.before, last.email) :
                              got.result[1] =
                                  [id |-> PyInt(last.before[i].id), email |-> PyStr(last.email),
                                   name |-> last.vo.name, surname |-> last.vo.surname,
                                   age |-> last.vo.age]

\* an update has changed the name of one of several rows
C11_Witness ==
    /\ last.op = "update_user" /\ last.outcome = "ok"
    /\ Len(last.before) >= 2
    /\ \E i \in Matching(last.before, last.email) : last.before[i].name # GivenName

\* C12: every stored row's id is a positive integer, no two stored rows share
\* an id, and a row that a call leaves in the table keeps its id.
C12_IdsPositiveUniqueStable ==
    /\ \A i \in DOMAIN rows : rows[i].id \in Nat /\ rows[i].id > 0
    /\ \A i, j \in DOMAIN rows : rows[i].id = rows[j].id => i = j
    /\ \A i \in DOMAIN last.before : \A j \in DOMAIN rows :
          last.before[i].email = rows[j].email => last.before[i].id = rows[j].id

\* a row has been added after another was deleted, beside a row that stayed
C12_Witness ==
    /\ last.op = "add_user" /\ last.outcome = "ok"
    /\ Len(last.before) >= 1
    /\ \E i \in DOMAIN last.before : last.before[i].id > Len(last.before)

\* C13: get_user_by_email returns the stored user when a row holds the email
\* and raises UserNotFound when none does; right after delete_user_by_email
\* succeeded no row holds its email, and only an add_user of an email can make
\* a row hold it again.
C13_GetFindsExactlyStored ==
    /\ (last.op = "get_user_by_email" /\ last.existed) =>
          IF Matching(last.before, last.email) = {}
          THEN last.outcome = "UserNotFound"
          ELSE /\ last.outcome = "ok"
               /\ \A i \in Matching(last.before, last.email) :
                     last.result = <<UserOfRow(last.before[i])>>
    /\ (last.op = "delete_user_by_email" /\ last.outcome = "ok") =>
          get_user_by_email(tableExists, rows, last.email).outcome = "UserNotFound"
    /\ \A j \in DOMAIN rows :
          Matching(last.before, rows[j].email) = {} =>
              last.op = "add_user" /\ last.outcome = "ok" /\ last.email = rows[j].email

\* a row has been deleted from a table that keeps other rows
C13_Witness ==
    /\ last.op = "delete_user_by_email" /\ last.outcome = "ok"
    /\ Len(rows) >= 1

\* C14: on an existing table, empty or not, delete_all_users succeeds and
\* leaves the table empty, and get_all_users then returns an empty list.
C14_DeleteAllEmpties ==
    (last.op = "delete_all_users" /\ last.existed)
        => /\ last.outcome = "ok"
           /\ rows = <<>>
           /\ get_all_users(tableExists, rows) = Outcome("ok", <<>>, <<>>)

\* delete_all_users has been called on an empty table
C14_Witness ==
    /\ last.op = "delete_all_users" /\ last.existed
    /\ last.before = <<>>

\* C15: initialize_table on a database that has the users table raises
\* nothing, leaves the table in place and leaves every row as it was.
C15_InitializeTableIdempotent ==
    (last.op = "initialize_table" /\ last.existed)
        => /\ last.outcome = "ok"
           /\ tableExists
           /\ rows = last.before

\* initialize_table has been called again on a table that holds rows
C15_Witness ==
    /\ last.op = "initialize_table" /\ last.existed
    /\ Len(last.before) >= 2

\* C21: delete_user_by_email on a stored email succeeds, the table has one
\* row less, no row holds the email any more, and every row with another
\* email is in the table with the id, email, name, surname and age it had.
C21_DeleteRemovesExactlyOne ==
    (/\ last.op = "delete_user_by_email"
     /\ last.existed
     /\ Matching(last.before, last.email) # {})
        => /\ last.outcome = "ok"
           /\ Len(rows) = Len(last.before) - 1
           /\ Matching(rows, last.email) = {}
           /\ \A i \in DOMAIN last.before :
                 last.before[i].email # last.email
                     => \E j \in DOMAIN rows : rows[j] = last.before[i]

\* a row has been deleted from a table of several rows
C21_Witness ==
    /\ last.op = "delete_user_by_email" /\ last.outcome = "ok"
    /\ Len(last.before) >= 2
    /\ Len(rows) = Len(last.before) - 1

RepositoryOperations ==
    {"add_user", "get_user_by_email", "get_all_users", "update_user",
     "delete_user_by_email", "delete_all_users"}

\* C22: a call on UserRepository of repositories/users.py and the same call on
\* UserRepository of database.py, made on the same table, end the same way,
\* with the same returned value or the same kind of exception, and leave the
\* same table.
C22_ImplementationsEquivalent ==
    last.op \in RepositoryOperations
        => last.database = Outcome(last.outcome, rows, last.result)

\* C16: whatever way a repository call ends, by returning, by UserNotFound or
\* IncorrectUserData, or by an error of the storage, it leaves no connection
\* open.
C16_ConnectionsReleased ==
    last.op \in RepositoryOperations => last.open = 0

\* C18: the first add_user on a fresh table returns id 1, and the id an
\* add_user returns was returned by no earlier add_user, whether or not the
\* user it was given to has been deleted since.
C18_IdsNeverReused ==
    (last.op = "add_user" /\ last.outcome = "ok")
        => /\ last.assigned = {} => last.result[1].id.n = 1
           /\ last.result[1].id.n \notin last.assigned

---------------------------------------------------------------------------
(* The command loop and the service commands *)

\* the operator answers yes to ask_retry at most MaxRetries times in a command
MaxRetries == 2

\* UserCLI.create_user: the four prompts, then UserCreateUpdateVO; every
\* exception becomes IncorrectUserData
cli_create_user(raw) ==
    LET email == lower(strip(raw.email))
        name == capitalize(strip(raw.name))
        surname == capitalize(strip(raw.surname))
        age == int(strip(raw.age))
        user_vo == UserCreateUpdateVO(Fields(name, surname, age.n, email))
    IN  IF age.err # "" THEN [err |-> "IncorrectUserData", vo |-> NoFields]
        ELSE IF user_vo.err # "" THEN [err |-> "IncorrectUserData", vo |-> NoFields]
        ELSE [err |-> "", vo |-> user_vo.self]

\* UserCLI.update_user: the same statements under other prompts
cli_update_user(raw) ==
    LET email == lower(strip(raw.email))
        name == capitalize(strip(raw.name))
        surname == capitalize(strip(raw.surname))
        age == int(strip(raw.age))
        user_vo == UserCreateUpdateVO(Fields(name, surname, age.n, email))
    IN  IF age.err # "" THEN [err |-> "IncorrectUserData", vo |-> NoFields]
        ELSE IF user_vo.err # "" THEN [err |-> "IncorrectUserData", vo |-> NoFields]
        ELSE [err |-> "", vo |-> user_vo.self]

\* UserCLI.get_email: the line the operator typed, stripped and lower-cased;
\* an empty one is asked for again
get_email(raw) == lower(strip(raw))

Yes == {<<"y", "e", "s">>, <<"y">>}
No == {<<"n", "o">>, <<"n">>}

\* UserCLI.ask_retry: yes, no, or the question again
ask_retry(raw) ==
    LET user_input == lower(strip(raw))
    IN  IF user_input \in Yes THEN "yes"
        ELSE IF user_input \in No THEN "no"
        ELSE "again"

\* UserCLI.delete_all: yes, no, or the question again
delete_all(raw) ==
    LET confirmation == lower(strip(raw))
    IN  IF confirmation \in Yes THEN "yes"
        ELSE IF confirmation \in No THEN "no"
        ELSE "again"

\* what the operator types at the prompts
CliEmails == {<<" ", "A", "@", "b", "b", ".", "c", "c">>, EmailB, <<"a", "@", "b">>, <<" ">>}
CliNames == {<<"b", "o", "B">>}
CliAges == {<<"2", "5">>, <<" ", "3", "0", " ">>, <<"x">>}
CliRecords == [email : CliEmails, name : CliNames, surname : {Doe}, age : CliAges]
Answers == {<<"y">>, <<"Y", "e", "s", " ">>, <<"n">>, <<"N", "o">>, <<"o", "k">>}

\* the commands of the main loop that run a service method
Commands == {"create", "get", "list", "update", "delete", "delete_all"}

\* catches that leaves IncorrectUserData to the caller
catches_only_not_found(cmd) ==
    IF cmd \in {"get", "update", "delete"} THEN {"UserNotFound"} ELSE {}

\* the exceptions the except clauses of a service method name
catches(cmd) ==
    IF cmd = "create" THEN {"IncorrectUserData"}
    ELSE IF cmd = "get" THEN {"UserNotFound"}
    ELSE IF cmd = "update" THEN {"UserNotFound", "IncorrectUserData"}
    ELSE IF cmd = "delete" THEN {"UserNotFound"}
    ELSE {}

\* where the try statement of a service method leaves the command: break on
\* success, ask_retry on a caught exception, out of the method on any other
Settle(exc, called) ==
    [svc EXCEPT !.pc = IF exc = "" THEN "main"
                       ELSE IF exc \in catches(svc.cmd) THEN "retry"
                       ELSE "escaped",
                !.err = exc,
                !.calls = IF called THEN @ + 1 ELSE @]

Raised_by(r) == IF r.outcome = "ok" THEN "" ELSE r.outcome

InitService ==
    /\ tableExists = FALSE
    /\ rows = <<>>
    /\ last = NoCall
    /\ input = [kind |-> "none", fields |-> NoFields]
    /\ built = NotBuilt
    /\ assigned = {}
    /\ svc = [NoService EXCEPT !.pc = "start"]

\* user_management_cli: the container is built and initialize_table called
ServiceStart ==
    /\ svc.pc = "start"
    /\ LET r == initialize_table(tableExists, rows)
       IN  /\ tableExists' = r.exists
           /\ rows' = r.rows
           /\ last' = Call("initialize_table", NoFields, <<>>,
                           [outcome |-> r.outcome, result |-> <<>>])
    /\ svc' = [svc EXCEPT !.pc = "main"]
    /\ UNCHANGED <<input, built, assigned>>

\* the main loop reads a command: a service method starts, or exit ends the loop
MainLoop ==
    /\ svc.pc = "main"
    /\ \E user_command \in Commands \cup {"exit"} :
          svc' = IF user_command = "exit"
                 THEN [NoService EXCEPT !.pc = "exited", !.cmd = "exit"]
                 ELSE [NoService EXCEPT !.pc = "attempt", !.cmd = user_command]
    /\ UNCHANGED <<tableExists, rows, last, input, built, assigned>>

\* UserService.create_user: one pass of its loop up to break or ask_retry
ServiceCreateUser ==
    /\ svc.pc = "attempt" /\ svc.cmd = "create"
    /\ \E raw \in CliRecords :
          LET user_vo == cli_create_user(raw)
              r == add_user(tableExists, rows, user_vo.vo)
          IN  IF user_vo.err # ""
              THEN /\ svc' = Settle(user_vo.err, FALSE)
                   /\ UNCHANGED <<rows, last, assigned>>
              ELSE /\ \A i \in DOMAIN r.rows : r.rows[i].id <= MaxId
                   /\ rows' = r.rows
                   /\ last' = Call("add_user", user_vo.vo, user_vo.vo.email.s, r)
                   /\ assigned' = IF r.outcome = "ok"
                                  THEN assigned \cup {r.result[1].id.n}
                                  ELSE assigned
                   /\ svc' = Settle(Raised_by(r), TRUE)
    /\ UNCHANGED <<tableExists, input, built>>

\* UserService.get_user: one pass of its loop
ServiceGetUser ==
    /\ svc.pc = "attempt" /\ svc.cmd = "get"
    /\ \E raw \in CliEmails :
          LET email == get_email(raw)
              r == get_user_by_email(tableExists, rows, email)
          IN  /\ email # <<>>
              /\ rows' = r.rows
              /\ last' = Call("get_user_by_email", NoFields, email, r)
              /\ svc' = Settle(Raised_by(r), TRUE)
    /\ UNCHANGED <<tableExists, input, built, assigned>>

\* UserService.get_all_users
ServiceGetAllUsers ==
    /\ svc.pc = "attempt" /\ svc.cmd = "list"
    /\ LET r == get_all_users(tableExists, rows)
       IN  /\ rows' = r.rows
           /\ last' = Call("get_all_users", NoFields, <<>>, r)
           /\ svc' = Settle(Raised_by(r), TRUE)
    /\ UNCHANGED <<tableExists, input, built, assigned>>

\* UserService.update_user: one pass of its loop
ServiceUpdateUser ==
    /\ svc.pc = "attempt" /\ svc.cmd = "update"
    /\ \E raw \in CliRecords :
          LET updated_user_vo == cli_update_user(raw)
              r == update_user(tableExists, rows, updated_user_vo.vo)
          IN  IF updated_user_vo.err # ""
              THEN /\ svc' = Settle(updated_user_vo.err, FALSE)
                   /\ UNCHANGED <<rows, last>>
              ELSE /\ rows' = r.rows
                   /\ last' = Call("update_user", updated_user_vo.vo,
                                   updated_user_vo.vo.email.s, r)
                   /\ svc' = Settle(Raised_by(r), TRUE)
    /\ UNCHANGED <<tableExists, input, built, assigned>>

\* UserService.delete_user: one pass of its loop
ServiceDeleteUser ==
    /\ svc.pc = "attempt" /\ svc.cmd = "delete"
    /\ \E raw \in CliEmails :
          LET email == get_email(raw)
              r == delete_user_by_email(tableExists, rows, email)
          IN  /\ email # <<>>
              /\ rows' = r.rows
              /\ last' = Call("delete_user_by_email", NoFields, email, r)
              /\ svc' = Settle(Raised_by(r), TRUE)
    /\ UNCHANGED <<tableExists, input, built, assigned>>

\* UserService.delete_all_users: the confirmation, then the deletion
ServiceDeleteAllUsers ==
    /\ svc.pc = "attempt" /\ svc.cmd = "delete_all"
    /\ \E raw \in Answers :
          LET confirmed == delete_all(raw)
              r == delete_all_users(tableExists, rows)
          IN  /\ confirmed # "again"
              /\ IF confirmed = "yes"
                 THEN /\ rows' = r.rows
                      /\ last' = Call("delete_all_users", NoFields, <<>>, r)
                      /\ svc' = Settle(Raised_by(r), TRUE)
                 ELSE /\ svc' = Settle("", FALSE)
                      /\ UNCHANGED <<rows, last>>
    /\ UNCHANGED <<tableExists, input, built, assigned>>

\* the except clause: ask_retry until the operator says yes or no
AskRetry ==
    /\ svc.pc = "retry"
    /\ \E raw \in Answers :
          LET answer == ask_retry(raw)
          IN  /\ answer # "again"
              /\ answer = "yes" => svc.yes < MaxRetries
              /\ svc' = IF answer = "yes"
                        THEN [svc EXCEPT !.pc = "attempt", !.err = "", !.yes = @ + 1]
                        ELSE [svc EXCEPT !.pc = "main", !.declined = TRUE]
    /\ UNCHANGED <<tableExists, rows, last, input, built, assigned>>

NextService ==
    \/ ServiceStart
    \/ MainLoop
    \/ ServiceCreateUser
    \/ ServiceGetUser
    \/ ServiceGetAllUsers
    \/ ServiceUpdateUser
    \/ ServiceDeleteUser
    \/ ServiceDeleteAllUsers
    \/ AskRetry

SpecService == InitService /\ [][NextService]_vars

DomainErrors == {"IncorrectUserData", "UserNotFound"}
RetryCommands == {"create", "get", "update", "delete"}

\* the repository method a command calls
RepositoryMethod(cmd) ==
    IF cmd = "create" THEN "add_user"
    ELSE IF cmd = "get" THEN "get_user_by_email"
    ELSE IF cmd = "update" THEN "update_user"
    ELSE "delete_user_by_email"

---------------------------------------------------------------------------
(* Construction of the value objects on its own *)

\* every string of at most n characters of alphabet
Strings(alphabet, n) == UNION {[1..k -> alphabet] : k \in 0..n}

EmailAlphabet == {"a", "B", "@", ".", "\n"}
NameAlphabet == {"a", "B", " "}

\* emails with the other characters of the pattern, and with some outside it
OtherEmails ==
    { <<"a", "_", ".", "+", "-", "1", "@", "b", "-", "2", ".", "c", "-", ".", "3">>,
      <<"a", "!", "@", "b", ".", "c">>,
      <<"a", "@", "b", "+", ".", "c">>,
      <<"a", "@", "b", "_", ".", "c">>,
      <<"a", "@", "b", ".", "c", "_">>,
      <<"a", "@", "b", ".", "c", " ">>,
      <<" ", "a", "@", "b", ".", "c">>,
      <<"1", "@", "2", ".", "3">>,
      EmailA, EmailShort, EmailFull, EmailLong }

EmailInputs ==
    {PyStr(e) : e \in Strings(EmailAlphabet, MaxEmailInputLen) \cup OtherEmails}
        \cup {PyNone, PyInt(5)}
NameInputs ==
    {PyStr(n) : n \in Strings(NameAlphabet, MaxNameInputLen) \cup {Bob, NameLong}}
        \cup {PyNone, PyInt(5)}
AgeInputs ==
    {PyInt(a) : a \in (0 - MaxAgeInput)..MaxAgeInput}
        \cup {PyNone, PyStr(<<"2", "5">>), PyBool(TRUE), PyBool(FALSE)}
EdgeAges == {PyInt(17), PyInt(18), PyInt(100), PyInt(101), PyNone}
EdgeEmails == {PyStr(EmailA), PyStr(<<"a", "@", "b">>), PyNone}
IdInputs == {PyInt(0 - 1), PyInt(0), PyInt(1), PyInt(2), PyNone, PyStr(<<"1">>), PyBool(TRUE)}

\* UserCreateUpdateVO(name=..., surname=..., age=..., email=...)
CreateInputs ==
    {[kind |-> "create", fields |-> f] : f \in
        [name : {PyStr(Bob)}, surname : {PyStr(Doe)}, age : {PyInt(25)}, email : EmailInputs]
        \cup [name : {PyStr(Bob)}, surname : {PyStr(Doe)}, age : AgeInputs, email : EdgeEmails]
        \cup [name : NameInputs, surname : NameInputs, age : EdgeAges, email : {PyStr(EmailA)}]}

\* UserVO(id=..., name=..., surname=..., age=..., email=...)
PersistedInputs ==
    {[kind |-> "persisted", fields |-> f] : f \in
        [id : IdInputs, name : {PyStr(Bob)}, surname : {PyStr(Doe)}, age : EdgeAges,
         email : EdgeEmails]
        \cup [id : {PyInt(1)}, name : NameInputs, surname : NameInputs, age : {PyInt(25)},
              email : {PyStr(EmailA)}]}

InitVO ==
    /\ tableExists = FALSE
    /\ rows = <<>>
    /\ last = NoCall
    /\ input \in CreateInputs \/ input \in PersistedInputs
    /\ built = NotBuilt
    /\ assigned = {}
    /\ svc = NoService

Built(r) == [done |-> TRUE, err |-> r.err, at |-> r.at, self |-> r.self]

ConstructUserCreateUpdateVO ==
    /\ input.kind = "create"
    /\ ~built.done
    /\ built' = Built(UserCreateUpdateVO(input.fields))
    /\ UNCHANGED <<tableExists, rows, last, input, assigned, svc>>

ConstructUserVO ==
    /\ input.kind = "persisted"
    /\ ~built.done
    /\ built' = Built(UserVO(input.fields))
    /\ UNCHANGED <<tableExists, rows, last, input, assigned, svc>>

NextVO ==
    \/ ConstructUserCreateUpdateVO
    \/ ConstructUserVO

SpecVO == InitVO /\ [][NextVO]_vars

---------------------------------------------------------------------------
(* Properties of construction, checked under SpecVO *)

\* the email grammar as the data model states it: a local part of
\* [A-Za-z0-9_.+-]+, '@', a host label of [A-Za-z0-9-]+, '.', then
\* [A-Za-z0-9-.]+ up to the end of the string
EmailGrammar(email) ==
    \E i \in 2..Len(email) :
        /\ email[i] = "@"
        /\ \A k \in 1..(i - 1) : email[k] \in LocalChars
        /\ \E j \in (i + 2)..(Len(email) - 1) :
              /\ email[j] = "."
              /\ \A k \in (i + 1)..(j - 1) : email[k] \in HostChars
              /\ \A k \in (j + 1)..Len(email) : email[k] \in TailChars

\* a create-update record has been constructed from a str name, a str surname
\* and a str email
CreatedFromStrings ==
    /\ built.done /\ input.kind = "create"
    /\ input.fields.name.t = "str" /\ input.fields.surname.t = "str"
    /\ input.fields.email.t = "str"

\* C6: with a valid name, surname and email, constructing a create-update
\* record of an integer age a raises a ValueError when a < 18 or a > 100 and
\* succeeds when 18 <= a <= 100.
C6_AgeRange ==
    (/\ CreatedFromStrings
     /\ EmailGrammar(input.fields.email.s)
     /\ input.fields.age.t = "int")
        => IF input.fields.age.n < 18 \/ input.fields.age.n > 100
           THEN built.err = "ValueError" /\ built.at = "age"
           ELSE built.err = "" /\ built.self.age = input.fields.age

\* a record of age 18 has been constructed
C6_Witness ==
    /\ CreatedFromStrings
    /\ EmailGrammar(input.fields.email.s)
    /\ input.fields.age = PyInt(18)
    /\ built.err = ""

\* C7: constructing a create-update record or a persisted record with an empty
\* name or an empty surname fails.
C7_EmptyNameFails ==
    (/\ built.done
     /\ \/ input.fields.name.t = "str" /\ input.fields.name.s = <<>>
        \/ input.fields.surname.t = "str" /\ input.fields.surname.s = <<>>)
        => built.err # ""

\* C8: constructing a create-update record with a valid name, surname and age
\* fails when the email does not match the grammar, and when it matches it
\* succeeds with the lower-cased email.
C8_EmailGrammarDecides ==
    (/\ CreatedFromStrings
     /\ input.fields.age.t = "int"
     /\ 18 <= input.fields.age.n /\ input.fields.age.n <= 100)
        => IF EmailGrammar(input.fields.email.s)
           THEN built.err = "" /\ built.self.email = PyStr(lower(input.fields.email.s))
           ELSE built.err # ""

\* a field of the input is not of the type its check_type asks for
WronglyTyped ==
    \/ ~isinstance(input.fields.name, "str")
    \/ ~isinstance(input.fields.surname, "str")
    \/ ~isinstance(input.fields.age, "int")
    \/ ~isinstance(input.fields.email, "str")
    \/ input.kind = "persisted" /\ ~isinstance(input.fields.id, "int")

\* C17: every type check comes before every range or format check, and these
\* before the lower-casing: an input with a wrongly typed field and an integer
\* age outside 18..100 fails with the TypeError, and when construction fails
\* the fields are still as they were given.
C17_TypeChecksFirst ==
    built.done =>
        /\ (/\ WronglyTyped
            /\ input.fields.age.t = "int"
            /\ ~age_in_range(input.fields.age.n)) => built.err = "TypeError"
        /\ built.err # "" => built.self = input.fields

\* C20: every stored row has an age in 18..100, a lower-case name, surname
\* and email, and an email of the validation grammar; so UserVO of a stored
\* row raises nothing, get_user_by_email of a stored email succeeds and
\* get_all_users returns one user for each row.
C20_StoredRowsValid ==
    tableExists =>
        /\ \A i \in DOMAIN rows :
              /\ MinAge <= rows[i].age /\ rows[i].age <= MaxAge
              /\ lower(rows[i].name) = rows[i].name
              /\ lower(rows[i].surname) = rows[i].surname
              /\ lower(rows[i].email) = rows[i].email
              /\ EmailGrammar(rows[i].email)
              /\ UserVO_of_row(rows[i]).err = ""
              /\ get_user_by_email(tableExists, rows, rows[i].email).outcome = "ok"
        /\ get_all_users(tableExists, rows).outcome = "ok"
        /\ Len(get_all_users(tableExists, rows).result) = Len(rows)

====
